---- MODULE Spec2Model ----
(***************************************************************************)
(* cluster::persisted_stm (src/v/cluster/persisted_stm.cc): snapshot       *)
(* hydration at start(), the snapshot scheduler behind _op_lock            *)
(* (make_snapshot / ensure_snapshot_exists), the leader sync protocol      *)
(* (sync / do_sync / wait_offset_committed) and the bytes persist_snapshot *)
(* writes and load_snapshot reads.                                         *)
(*                                                                         *)
(* One seastar shard: fibers run one at a time and interleave only at      *)
(* co_await / future continuations, so every action below is the code      *)
(* between two suspension points.  A suspension point that may or may not  *)
(* suspend (a future that is already available) is modelled as one that    *)
(* does: this only adds interleavings.                                     *)
(*                                                                         *)
(* The consensus engine (_c), raft::state_machine (apply loop, wait,       *)
(* set_next), the subclass hooks (take_snapshot, apply_snapshot), the      *)
(* snapshot manager, mutex and expiring_promise are not in the source      *)
(* tree; they are modelled at their interface.                             *)
(***************************************************************************)
EXTENDS Integers, Sequences, FiniteSets, TLC

\* ---------------------------------------------------------------- bounds
MaxOffset == 2
MaxTerm == 2
NumSyncCallers == 2
NumSnapCallers == 2
MaxWaiters == 2
MaxLen == 2

\* model::offset{} (the smallest offset) and the initial _insync_term
NoOffset == -1
NoTerm == -1

\* persisted_stm.h: snapshot format tags
snapshot_version_v0 == 0
snapshot_version == 1

Offsets == NoOffset..MaxOffset
Terms == 0..MaxTerm
SyncCallers == 1..NumSyncCallers
SnapCallers == 1..NumSnapCallers
NoFile == [version |-> -1, offset |-> NoOffset]

Max(a, b) == IF a >= b THEN a ELSE b

\* No stm_snapshot, no bytes.
NoSnapshot == [offset |-> NoOffset, version |-> 0, snapshot_size |-> 0, data |-> <<>>]
NoBytes == [metadata |-> <<>>, data |-> <<>>]
CodecOff == [pc |-> "off", snapshot |-> NoSnapshot, file |-> NoBytes, loaded |-> NoSnapshot]

VARIABLES
    \* raft::consensus (_c)
    c_term,             \* _c->term()
    c_is_leader,        \* _c->is_leader()
    c_committed_offset, \* _c->committed_offset()
    c_dirty_offset,     \* _c->dirty_offset()
    c_start_offset,     \* _c->start_offset()
    \* raft::state_machine
    next,               \* _next, set by set_next and the apply loop
    \* persisted_stm
    insync_offset,      \* _insync_offset
    insync_term,        \* _insync_term
    is_catching_up,     \* _is_catching_up
    sync_waiters,       \* _sync_waiters
    last_snapshot_offset, \* _last_snapshot_offset
    hydrated,           \* _resolved_when_snapshot_hydrated.available()
    set_value_calls,    \* calls of _resolved_when_snapshot_hydrated.set_value()
    op_lock,            \* _op_lock: the fiber holding it, 0 when free
    snapshot_file,      \* the snapshot the snapshot manager has on disk
    apply_snapshot_calls, \* invocations of the apply_snapshot hook
    \* fibers
    start_pc,           \* start()
    sync_fiber,         \* callers of sync()
    snap_fiber,         \* callers of make_snapshot / ensure_snapshot_exists
    \* history
    synced_terms,       \* terms whose own sync attempt has succeeded
    lost_term,          \* attempts whose term changed before the apply cursor reached their target
    written,            \* covered offsets of the snapshots this instance has written
    \* persist_snapshot / load_snapshot on the bytes of one snapshot
    codec               \* the stm_snapshot given, the bytes on disk, the stm_snapshot read

consensus_vars == <<c_term, c_is_leader, c_committed_offset, c_dirty_offset, c_start_offset>>
sync_vars == <<insync_term, is_catching_up, sync_waiters, sync_fiber, synced_terms, lost_term>>
snap_vars == <<last_snapshot_offset, op_lock, snap_fiber, written>>
start_vars == <<hydrated, set_value_calls, apply_snapshot_calls, start_pc>>
vars == <<consensus_vars, next, insync_offset, snapshot_file, sync_vars, snap_vars, start_vars,
          codec>>

IdleSync == [pc |-> "idle", term |-> NoTerm, dirty |-> NoOffset, offset |-> NoOffset,
             committed |-> NoOffset, is_synced |-> FALSE]
IdleSnap == [pc |-> "idle", op |-> "none", target_offset |-> NoOffset, offset |-> NoOffset]

\* ------------------------------------------------------------------ Init
\* After the constructor: nothing hydrated, no sync done, the log and the
\* snapshot directory as a previous run left them.
SnapshotFiles ==
    {NoFile} \cup [version : {snapshot_version_v0, snapshot_version, snapshot_version + 1},
                   offset : 0..MaxOffset]

InitStm ==
    /\ c_term = 0
    /\ c_is_leader = FALSE
    /\ next = 0
    /\ insync_offset = NoOffset
    /\ insync_term = NoTerm
    /\ is_catching_up = FALSE
    /\ sync_waiters = <<>>
    /\ last_snapshot_offset = NoOffset
    /\ hydrated = FALSE
    /\ set_value_calls = 0
    /\ op_lock = 0
    /\ apply_snapshot_calls = 0
    /\ start_pc = "load_snapshot"
    /\ sync_fiber = [c \in SyncCallers |-> IdleSync]
    /\ snap_fiber = [s \in SnapCallers |-> IdleSnap]
    /\ synced_terms = {}
    /\ lost_term = {}
    /\ written = {}

Init ==
    /\ InitStm
    /\ codec = CodecOff
    /\ snapshot_file \in SnapshotFiles
    /\ c_start_offset \in Offsets
    /\ c_dirty_offset \in Offsets
    /\ c_dirty_offset >= c_start_offset - 1
    /\ c_dirty_offset >= snapshot_file.offset
    /\ c_committed_offset = c_dirty_offset

\* ------------------------------------------------------- start() (267-307)
\* raft::details::next_offset
next_offset(o) == IF o < 0 THEN 0 ELSE o + 1

\* load_snapshot without the branch of 50-60.
load_snapshot_no_v0(file) ==
    IF file = NoFile THEN "nullopt"
    ELSE IF ~(file.version = snapshot_version \/ file.version = snapshot_version_v0) THEN "abort"
    ELSE "snapshot"

\* load_snapshot (34-74): "nullopt" when there is no file or the file is in
\* the v0 format, "abort" when the vassert on the version fails, else the
\* snapshot read.
load_snapshot(file) ==
    IF file = NoFile THEN "nullopt"
    ELSE IF ~(file.version = snapshot_version \/ file.version = snapshot_version_v0) THEN "abort"
    ELSE IF file.version = snapshot_version_v0 THEN "nullopt"
    ELSE "snapshot"

\* start() 283 with > for >=.
snapshot_in_range_strict(offset) == offset > c_start_offset

\* start() 283: the offset after the snapshot is within the log.
snapshot_in_range(offset) == offset >= c_start_offset

\* start() with the set_next of 296 inside the branch of 284.
StartLoadSnapshotSetNextInRange ==
    /\ start_pc = "load_snapshot"
    /\ LET maybe_snapshot == load_snapshot(snapshot_file) IN
       CASE maybe_snapshot = "abort" ->
              /\ start_pc' = "aborted"
              /\ UNCHANGED <<next, hydrated, set_value_calls>>
         [] maybe_snapshot = "snapshot" ->
              IF snapshot_in_range(next_offset(snapshot_file.offset))
              THEN /\ start_pc' = "apply_snapshot"
                   /\ UNCHANGED <<next, hydrated, set_value_calls>>
              ELSE /\ hydrated' = TRUE
                   /\ set_value_calls' = set_value_calls + 1
                   /\ start_pc' = "state_machine_start"
                   /\ UNCHANGED next
         [] OTHER ->
              /\ next' = IF c_start_offset >= 0 THEN c_start_offset ELSE next
              /\ hydrated' = TRUE
              /\ set_value_calls' = set_value_calls + 1
              /\ start_pc' = "state_machine_start"
    /\ UNCHANGED <<consensus_vars, insync_offset, snapshot_file, sync_vars, snap_vars,
                   apply_snapshot_calls>>
    /\ UNCHANGED codec

\* start() up to its first suspension after load_snapshot returned.
StartLoadSnapshot ==
    /\ start_pc = "load_snapshot"
    /\ LET maybe_snapshot == load_snapshot(snapshot_file) IN
       CASE maybe_snapshot = "abort" ->
              /\ start_pc' = "aborted"
              /\ UNCHANGED <<next, hydrated, set_value_calls>>
         [] maybe_snapshot = "snapshot" ->
              IF snapshot_in_range(next_offset(snapshot_file.offset))
              THEN /\ start_pc' = "apply_snapshot"
                   /\ UNCHANGED <<next, hydrated, set_value_calls>>
              ELSE /\ next' = next_offset(snapshot_file.offset)
                   /\ hydrated' = TRUE
                   /\ set_value_calls' = set_value_calls + 1
                   /\ start_pc' = "state_machine_start"
         [] OTHER ->
              /\ next' = IF c_start_offset >= 0 THEN c_start_offset ELSE next
              /\ hydrated' = TRUE
              /\ set_value_calls' = set_value_calls + 1
              /\ start_pc' = "state_machine_start"
    /\ UNCHANGED <<consensus_vars, insync_offset, snapshot_file, sync_vars, snap_vars,
                   apply_snapshot_calls>>
    /\ UNCHANGED codec

\* load_snapshot throws: the vassert(false) of start() ends the process.
StartLoadSnapshotFails ==
    /\ start_pc = "load_snapshot"
    /\ snapshot_file # NoFile
    /\ start_pc' = "aborted"
    /\ UNCHANGED <<consensus_vars, next, insync_offset, snapshot_file, sync_vars, snap_vars,
                   hydrated, set_value_calls, apply_snapshot_calls>>
    /\ UNCHANGED codec

\* apply_snapshot returned, then set_next, without the set_value of 298.
StartApplySnapshotDoneUnresolved ==
    /\ start_pc = "apply_snapshot"
    /\ insync_offset' = snapshot_file.offset
    /\ apply_snapshot_calls' = apply_snapshot_calls + 1
    /\ next' = next_offset(snapshot_file.offset)
    /\ start_pc' = "state_machine_start"
    /\ UNCHANGED <<consensus_vars, snapshot_file, sync_vars, snap_vars, hydrated,
                   set_value_calls>>
    /\ UNCHANGED codec

\* apply_snapshot returned (the hook restores the state as of header.offset),
\* then set_next and the readiness promise.
StartApplySnapshotDone ==
    /\ start_pc = "apply_snapshot"
    /\ insync_offset' = snapshot_file.offset
    /\ apply_snapshot_calls' = apply_snapshot_calls + 1
    /\ next' = next_offset(snapshot_file.offset)
    /\ hydrated' = TRUE
    /\ set_value_calls' = set_value_calls + 1
    /\ start_pc' = "state_machine_start"
    /\ UNCHANGED <<consensus_vars, snapshot_file, sync_vars, snap_vars>>
    /\ UNCHANGED codec

\* state_machine::start(): the apply loop begins.
StartStateMachine ==
    /\ start_pc = "state_machine_start"
    /\ start_pc' = "running"
    /\ UNCHANGED <<consensus_vars, next, insync_offset, snapshot_file, sync_vars, snap_vars,
                   hydrated, set_value_calls, apply_snapshot_calls>>
    /\ UNCHANGED codec

StartStep ==
    \/ StartLoadSnapshot
    \/ StartLoadSnapshotFails
    \/ StartApplySnapshotDone
    \/ StartStateMachine

\* ------------------------------------------ consensus engine and apply loop
\* An attempt of sync() is waiting for its target while the apply cursor is below it.
WaitingBelowTarget(c) ==
    /\ sync_fiber[c].pc \in {"wait_offset_committed", "wait"}
    /\ insync_offset < sync_fiber[c].offset

AppendEntry ==
    /\ c_dirty_offset < MaxOffset
    /\ c_dirty_offset' = c_dirty_offset + 1
    /\ UNCHANGED <<c_term, c_is_leader, c_committed_offset, c_start_offset, next, insync_offset,
                   snapshot_file, sync_vars, snap_vars, start_vars>>
    /\ UNCHANGED codec

CommitIndexAdvance ==
    /\ c_committed_offset < c_dirty_offset
    /\ c_committed_offset' = c_committed_offset + 1
    /\ UNCHANGED <<c_term, c_is_leader, c_dirty_offset, c_start_offset, next, insync_offset,
                   snapshot_file, sync_vars, snap_vars, start_vars>>
    /\ UNCHANGED codec

\* A new term begins: the node starts or sees a new election.
TermChange ==
    /\ c_term < MaxTerm
    /\ c_term' = c_term + 1
    /\ c_is_leader' = FALSE
    /\ lost_term' = lost_term \cup {c \in SyncCallers : WaitingBelowTarget(c)}
    /\ UNCHANGED <<c_committed_offset, c_dirty_offset, c_start_offset, next, insync_offset,
                   snapshot_file, insync_term, is_catching_up, sync_waiters, sync_fiber,
                   synced_terms, snap_vars, start_vars>>
    /\ UNCHANGED codec

\* The node wins the election of its term.
BecomeLeader ==
    /\ ~c_is_leader
    /\ c_is_leader' = TRUE
    /\ UNCHANGED <<c_term, c_committed_offset, c_dirty_offset, c_start_offset, next,
                   insync_offset, snapshot_file, sync_vars, snap_vars, start_vars>>
    /\ UNCHANGED codec

\* The leader steps down within its term.
StepDown ==
    /\ c_is_leader
    /\ c_is_leader' = FALSE
    /\ UNCHANGED <<c_term, c_committed_offset, c_dirty_offset, c_start_offset, next,
                   insync_offset, snapshot_file, sync_vars, snap_vars, start_vars>>
    /\ UNCHANGED codec

\* The apply loop applies the committed batch at _next; the subclass's apply
\* records it in _insync_offset and the waiters of wait() are notified.
ApplyStep ==
    /\ start_pc = "running"
    /\ next >= c_start_offset
    /\ next <= c_committed_offset
    /\ insync_offset' = next
    /\ next' = next + 1
    /\ UNCHANGED <<consensus_vars, snapshot_file, sync_vars, snap_vars, start_vars>>
    /\ UNCHANGED codec

\* _next is below the log's start: the apply fiber calls handle_eviction.
HandleEviction ==
    /\ start_pc = "running"
    /\ next < c_start_offset
    /\ next' = c_start_offset
    /\ UNCHANGED <<consensus_vars, insync_offset, snapshot_file, sync_vars, snap_vars, start_vars>>
    /\ UNCHANGED codec

\* --------------------------------------------------- sync() (221-249)
\* do_sync without the else branch of 196-198.
do_sync_offset_dirty_only(offset, committed) == offset

\* do_sync (179-198): the offset the attempt goes on to wait for.
do_sync_offset(offset, committed) ==
    IF offset > committed THEN offset ELSE committed

\* stop_cond with > for >=.
stop_cond_strict(offset, term) ==
    c_committed_offset > offset \/ c_term > term

\* wait_offset_committed's stop_cond (168-170)
stop_cond(offset, term) ==
    c_committed_offset >= offset \/ c_term > term

\* sync() without the check of 226-228.
insync_never(term) == FALSE

\* sync() 226: a sync of this term has already succeeded.
insync(term) == insync_term = term

\* Waiters resolved with false whatever the attempt returned.
waiter_value_false(is_synced) == FALSE

\* sync() 245: the value every waiter is resolved with.
waiter_value(is_synced) == is_synced

\* sync() without the check of 229.
another_attempt_in_flight_never == FALSE

\* sync() 229: is another attempt in flight?
another_attempt_in_flight == is_catching_up

\* sync() 244-246: the promises the loop calls set_value on.
DrainedWaiters == 1..Len(sync_waiters)

\* The waiters of _sync_waiters that have not been resolved by their timeout.
PendingWaiters == {i \in 1..Len(sync_waiters) : sync_waiters[i].state = "pending"}

\* sync() from its entry to its first suspension or return (222-239).
SyncCall(c) ==
    /\ sync_fiber[c].pc = "idle"
    /\ LET term == c_term IN
       IF ~c_is_leader
       THEN /\ sync_fiber' = [sync_fiber EXCEPT ![c] =
                   [@ EXCEPT !.pc = "ret_not_leader", !.term = term, !.is_synced = FALSE]]
            /\ UNCHANGED <<is_catching_up, sync_waiters>>
       ELSE IF insync(term)
       THEN /\ sync_fiber' = [sync_fiber EXCEPT ![c] =
                   [@ EXCEPT !.pc = "ret_insync", !.term = term, !.is_synced = TRUE]]
            /\ UNCHANGED <<is_catching_up, sync_waiters>>
       ELSE IF another_attempt_in_flight
       THEN /\ Len(sync_waiters) < MaxWaiters
            /\ sync_waiters' = Append(sync_waiters, [caller |-> c, state |-> "pending"])
            /\ sync_fiber' = [sync_fiber EXCEPT ![c] =
                   [@ EXCEPT !.pc = "sync_waiter", !.term = term]]
            /\ UNCHANGED is_catching_up
       ELSE /\ is_catching_up' = TRUE
            /\ sync_fiber' = [sync_fiber EXCEPT ![c] =
                   [@ EXCEPT !.pc = "refresh_commit_index", !.term = term,
                             !.dirty = c_dirty_offset]]
            /\ UNCHANGED sync_waiters
    /\ UNCHANGED <<consensus_vars, next, insync_offset, snapshot_file, insync_term,
                   synced_terms, lost_term, snap_vars, start_vars>>
    /\ UNCHANGED codec

\* refresh_commit_index returned; do_sync from its entry to its first
\* suspension or return (179-202).
SyncRefreshDone(c) ==
    /\ sync_fiber[c].pc = "refresh_commit_index"
    /\ LET f == sync_fiber[c]
           committed == c_committed_offset
           offset == do_sync_offset(f.dirty, committed)
       IN  IF f.dirty > committed
           THEN sync_fiber' = [sync_fiber EXCEPT ![c] =
                    [@ EXCEPT !.pc = "wait_offset_committed", !.committed = committed,
                              !.offset = offset]]
           ELSE IF c_term = f.term
           THEN sync_fiber' = [sync_fiber EXCEPT ![c] =
                    [@ EXCEPT !.pc = "wait", !.committed = committed, !.offset = offset]]
           ELSE sync_fiber' = [sync_fiber EXCEPT ![c] =
                    [@ EXCEPT !.pc = "do_sync_returned", !.committed = committed,
                              !.offset = offset, !.is_synced = FALSE]]
    /\ UNCHANGED <<consensus_vars, next, insync_offset, snapshot_file, insync_term,
                   is_catching_up, sync_waiters, synced_terms, lost_term, snap_vars, start_vars>>
    /\ UNCHANGED codec

\* refresh_commit_index failed: 239 is in no try block, the exception leaves
\* sync() at once and 243-247 do not run.
SyncRefreshFails(c) ==
    /\ sync_fiber[c].pc = "refresh_commit_index"
    /\ sync_fiber' = [sync_fiber EXCEPT ![c] = [@ EXCEPT !.pc = "ret_exception"]]
    /\ UNCHANGED <<consensus_vars, next, insync_offset, snapshot_file, insync_term,
                   is_catching_up, sync_waiters, synced_terms, lost_term, snap_vars, start_vars>>
    /\ UNCHANGED codec

\* wait_offset_committed returned because stop_cond holds (184, 200-202).
SyncWaitCommittedDone(c) ==
    /\ sync_fiber[c].pc = "wait_offset_committed"
    /\ stop_cond(sync_fiber[c].offset, sync_fiber[c].term)
    /\ IF c_term = sync_fiber[c].term
       THEN sync_fiber' = [sync_fiber EXCEPT ![c] = [@ EXCEPT !.pc = "wait"]]
       ELSE sync_fiber' = [sync_fiber EXCEPT ![c] =
                [@ EXCEPT !.pc = "do_sync_returned", !.is_synced = FALSE]]
    /\ UNCHANGED <<consensus_vars, next, insync_offset, snapshot_file, insync_term,
                   is_catching_up, sync_waiters, synced_terms, lost_term, snap_vars, start_vars>>
    /\ UNCHANGED codec

\* wait_offset_committed or wait threw in a do_sync that assigns _insync_term
\* before the waits.
SyncWaitFailsRecorded(c) ==
    /\ sync_fiber[c].pc \in {"wait_offset_committed", "wait"}
    /\ insync_term' = sync_fiber[c].term
    /\ sync_fiber' = [sync_fiber EXCEPT ![c] =
           [@ EXCEPT !.pc = "do_sync_returned", !.is_synced = FALSE]]
    /\ UNCHANGED <<consensus_vars, next, insync_offset, snapshot_file,
                   is_catching_up, sync_waiters, synced_terms, lost_term, snap_vars, start_vars>>
    /\ UNCHANGED codec

\* wait_offset_committed or wait threw (timeout or error): catch, co_return false
\* (185-195, 203-213).
SyncWaitFails(c) ==
    /\ sync_fiber[c].pc \in {"wait_offset_committed", "wait"}
    /\ sync_fiber' = [sync_fiber EXCEPT ![c] =
           [@ EXCEPT !.pc = "do_sync_returned", !.is_synced = FALSE]]
    /\ UNCHANGED <<consensus_vars, next, insync_offset, snapshot_file, insync_term,
                   is_catching_up, sync_waiters, synced_terms, lost_term, snap_vars, start_vars>>
    /\ UNCHANGED codec

\* wait(offset, deadline) returned: the apply cursor reached offset (202, 214-215).
SyncWaitDone(c) ==
    /\ sync_fiber[c].pc = "wait"
    /\ insync_offset >= sync_fiber[c].offset
    /\ insync_term' = sync_fiber[c].term
    /\ synced_terms' = synced_terms \cup {sync_fiber[c].term}
    /\ sync_fiber' = [sync_fiber EXCEPT ![c] =
           [@ EXCEPT !.pc = "do_sync_returned", !.is_synced = TRUE]]
    /\ UNCHANGED <<consensus_vars, next, insync_offset, snapshot_file, is_catching_up,
                   sync_waiters, lost_term, snap_vars, start_vars>>
    /\ UNCHANGED codec

\* sync() after do_sync returned (243-248): every waiter still pending gets
\* is_synced.
SyncFinish(c) ==
    /\ sync_fiber[c].pc = "do_sync_returned"
    /\ is_catching_up' = FALSE
    /\ sync_waiters' = <<>>
    /\ sync_fiber' = [d \in SyncCallers |->
           IF d = c THEN [sync_fiber[d] EXCEPT !.pc = "ret_attempt"]
           ELSE IF \E i \in PendingWaiters : sync_waiters[i].caller = d
           THEN [sync_fiber[d] EXCEPT !.pc = "ret_waiter",
                                      !.is_synced = waiter_value(sync_fiber[c].is_synced)]
           ELSE sync_fiber[d]]
    /\ UNCHANGED <<consensus_vars, next, insync_offset, snapshot_file, insync_term,
                   synced_terms, lost_term, snap_vars, start_vars>>
    /\ UNCHANGED codec

\* The deadline of a waiter's expiring_promise passes: it resolves to false (233-234).
SyncWaiterTimeout(c) ==
    /\ sync_fiber[c].pc = "sync_waiter"
    /\ sync_waiters' = [i \in 1..Len(sync_waiters) |->
           IF sync_waiters[i].caller = c THEN [sync_waiters[i] EXCEPT !.state = "expired"]
           ELSE sync_waiters[i]]
    /\ sync_fiber' = [sync_fiber EXCEPT ![c] = [@ EXCEPT !.pc = "ret_waiter", !.is_synced = FALSE]]
    /\ UNCHANGED <<consensus_vars, next, insync_offset, snapshot_file, insync_term,
                   is_catching_up, synced_terms, lost_term, snap_vars, start_vars>>
    /\ UNCHANGED codec

Returned == {"ret_not_leader", "ret_insync", "ret_waiter", "ret_attempt", "ret_exception"}

\* The caller has its result; it may call again.
SyncReturn(c) ==
    /\ sync_fiber[c].pc \in Returned
    /\ sync_fiber' = [sync_fiber EXCEPT ![c] = IdleSync]
    /\ lost_term' = lost_term \ {c}
    /\ UNCHANGED <<consensus_vars, next, insync_offset, snapshot_file, insync_term,
                   is_catching_up, sync_waiters, synced_terms, snap_vars, start_vars>>
    /\ UNCHANGED codec

SyncStep ==
    \E c \in SyncCallers :
        \/ SyncCall(c)
        \/ SyncRefreshDone(c)
        \/ SyncRefreshFails(c)
        \/ SyncWaitCommittedDone(c)
        \/ SyncWaitFails(c)
        \/ SyncWaitDone(c)
        \/ SyncFinish(c)
        \/ SyncWaiterTimeout(c)
        \/ SyncReturn(c)

\* ------------------------- make_snapshot / ensure_snapshot_exists (118-158)
SnapOps == {"make_snapshot", "make_snapshot_in_background", "ensure_snapshot_exists"}

\* The lambdas run without _op_lock.
op_lock_free_always == TRUE

\* _op_lock.with: the mutex can be taken when no fiber holds it.
op_lock_free == op_lock = 0

\* wait_for_snapshot_hydrated returning ss::now() in every case.
wait_for_snapshot_hydrated_now == TRUE

\* wait_for_snapshot_hydrated (76-82): the returned future is available.
wait_for_snapshot_hydrated == hydrated

\* The comparison of 143 with < for <=.
already_covered_strict(target_offset) == target_offset < last_snapshot_offset

\* ensure_snapshot_exists 143: nothing to do.
already_covered(target_offset) == target_offset <= last_snapshot_offset

\* The call: the fiber queues on _op_lock (131, 139). make_snapshot takes no
\* target.
SnapCall(s) ==
    /\ snap_fiber[s].pc = "idle"
    /\ \E op \in SnapOps, target \in 0..MaxOffset :
         /\ op # "ensure_snapshot_exists" => target = 0
         /\ snap_fiber' = [snap_fiber EXCEPT ![s] =
                [@ EXCEPT !.pc = "op_lock", !.op = op,
                          !.target_offset = IF op = "ensure_snapshot_exists" THEN target
                                            ELSE NoOffset]]
    /\ UNCHANGED <<consensus_vars, next, insync_offset, snapshot_file, sync_vars,
                   last_snapshot_offset, op_lock, written, start_vars>>
    /\ UNCHANGED codec

\* The fiber gets the lock and asks for the hydration future (131-132, 139-140).
SnapLock(s) ==
    /\ snap_fiber[s].pc = "op_lock"
    /\ op_lock_free
    /\ op_lock' = s
    /\ snap_fiber' = [snap_fiber EXCEPT ![s] = [@ EXCEPT !.pc = "wait_for_snapshot_hydrated"]]
    /\ UNCHANGED <<consensus_vars, next, insync_offset, snapshot_file, sync_vars,
                   last_snapshot_offset, written, start_vars>>
    /\ UNCHANGED codec

\* The continuation of the hydration future (133, 142-146).
SnapHydrated(s) ==
    /\ snap_fiber[s].pc = "wait_for_snapshot_hydrated"
    /\ wait_for_snapshot_hydrated
    /\ IF snap_fiber[s].op # "ensure_snapshot_exists"
       THEN /\ snap_fiber' = [snap_fiber EXCEPT ![s] = [@ EXCEPT !.pc = "take_snapshot"]]
            /\ UNCHANGED op_lock
       ELSE IF already_covered(snap_fiber[s].target_offset)
       THEN /\ snap_fiber' = [snap_fiber EXCEPT ![s] = [@ EXCEPT !.pc = "ret_covered"]]
            /\ op_lock' = 0
       ELSE /\ snap_fiber' = [snap_fiber EXCEPT ![s] = [@ EXCEPT !.pc = "wait"]]
            /\ UNCHANGED op_lock
    /\ UNCHANGED <<consensus_vars, next, insync_offset, snapshot_file, sync_vars,
                   last_snapshot_offset, written, start_vars>>
    /\ UNCHANGED codec

\* wait(target_offset, no_timeout) returned; the vassert holds (146-154).
SnapWaitDone(s) ==
    /\ snap_fiber[s].pc = "wait"
    /\ insync_offset >= snap_fiber[s].target_offset
    /\ snap_fiber' = [snap_fiber EXCEPT ![s] = [@ EXCEPT !.pc = "take_snapshot"]]
    /\ UNCHANGED <<consensus_vars, next, insync_offset, snapshot_file, sync_vars,
                   last_snapshot_offset, op_lock, written, start_vars>>
    /\ UNCHANGED codec

\* take_snapshot returned the state as of the apply cursor (119-122).
SnapTakeDone(s) ==
    /\ snap_fiber[s].pc = "take_snapshot"
    /\ snap_fiber' = [snap_fiber EXCEPT ![s] =
           [@ EXCEPT !.pc = "persist_snapshot", !.offset = insync_offset]]
    /\ UNCHANGED <<consensus_vars, next, insync_offset, snapshot_file, sync_vars,
                   last_snapshot_offset, op_lock, written, start_vars>>
    /\ UNCHANGED codec

\* persist_snapshot threw in a do_make_snapshot that assigns
\* _last_snapshot_offset before the co_await of 122.
SnapFailsRecorded(s) ==
    /\ snap_fiber[s].pc = "persist_snapshot"
    /\ snap_fiber' = [snap_fiber EXCEPT ![s] = [@ EXCEPT !.pc = "ret_failed"]]
    /\ last_snapshot_offset' = Max(last_snapshot_offset, snap_fiber[s].offset)
    /\ op_lock' = 0
    /\ UNCHANGED <<consensus_vars, next, insync_offset, snapshot_file, sync_vars,
                   written, start_vars>>
    /\ UNCHANGED codec

\* take_snapshot or persist_snapshot threw: the exception leaves
\* do_make_snapshot and _op_lock.with releases the lock. An unfinished
\* snapshot never replaces the file.
SnapFails(s) ==
    /\ snap_fiber[s].pc \in {"take_snapshot", "persist_snapshot"}
    /\ snap_fiber' = [snap_fiber EXCEPT ![s] = [@ EXCEPT !.pc = "ret_failed"]]
    /\ op_lock' = 0
    /\ UNCHANGED <<consensus_vars, next, insync_offset, snapshot_file, sync_vars,
                   last_snapshot_offset, written, start_vars>>
    /\ UNCHANGED codec

\* persist_snapshot (84-116): finish_snapshot made the new file the snapshot.
SnapPersistDone(s) ==
    /\ snap_fiber[s].pc = "persist_snapshot"
    /\ snapshot_file' = [version |-> snapshot_version, offset |-> snap_fiber[s].offset]
    /\ written' = written \cup {snap_fiber[s].offset}
    /\ snap_fiber' = [snap_fiber EXCEPT ![s] = [@ EXCEPT !.pc = "persisted"]]
    /\ UNCHANGED <<consensus_vars, next, insync_offset, sync_vars, last_snapshot_offset,
                   op_lock, start_vars>>
    /\ UNCHANGED codec

\* do_make_snapshot 123, then the lock is released.
SnapRecord(s) ==
    /\ snap_fiber[s].pc = "persisted"
    /\ last_snapshot_offset' = Max(last_snapshot_offset, snap_fiber[s].offset)
    /\ op_lock' = 0
    /\ snap_fiber' = [snap_fiber EXCEPT ![s] = [@ EXCEPT !.pc = "ret_written"]]
    /\ UNCHANGED <<consensus_vars, next, insync_offset, snapshot_file, sync_vars, written,
                   start_vars>>
    /\ UNCHANGED codec

SnapReturn(s) ==
    /\ snap_fiber[s].pc \in {"ret_covered", "ret_failed", "ret_written"}
    /\ snap_fiber' = [snap_fiber EXCEPT ![s] = IdleSnap]
    /\ UNCHANGED <<consensus_vars, next, insync_offset, snapshot_file, sync_vars,
                   last_snapshot_offset, op_lock, written, start_vars>>
    /\ UNCHANGED codec

SnapStep ==
    \E s \in SnapCallers :
        \/ SnapCall(s)
        \/ SnapLock(s)
        \/ SnapHydrated(s)
        \/ SnapWaitDone(s)
        \/ SnapTakeDone(s)
        \/ SnapFails(s)
        \/ SnapPersistDone(s)
        \/ SnapRecord(s)
        \/ SnapReturn(s)

\* ------------------------------- persist_snapshot / load_snapshot: the bytes
\* The values of a byte of the payload, of header.version, of
\* header.snapshot_size.
Bytes == {0, 255}
DataVersions == {-1, 0, 1}
DataSizes == -1..(MaxLen + 1)

RECURSIVE SeqsOfLen(_)
SeqsOfLen(n) ==
    IF n = 0 THEN {<<>>}
    ELSE {Append(q, b) : q \in SeqsOfLen(n - 1), b \in Bytes}

\* The stm_snapshots take_snapshot may hand to persist_snapshot.
Snapshots ==
    {[offset |-> o, version |-> v, snapshot_size |-> n, data |-> d] :
        o \in Offsets, v \in DataVersions, n \in DataSizes,
        d \in UNION {SeqsOfLen(l) : l \in 0..MaxLen}}

\* reflection::adl of a signed integer of n bytes: little-endian two's
\* complement.
RECURSIVE to_bytes(_, _)
to_bytes(v, n) ==
    IF n = 0 THEN <<>> ELSE <<v % 256>> \o to_bytes(v \div 256, n - 1)

RECURSIVE from_bytes(_)
from_bytes(b) ==
    IF Len(b) = 1 THEN (IF b[1] >= 128 THEN b[1] - 256 ELSE b[1])
    ELSE b[1] + 256 * from_bytes(Tail(b))

\* The metadata with data_version and data_size written in the other order.
serialize_size_first(version, offset, data_version, data_size) ==
    to_bytes(version, 1) \o to_bytes(offset, 8) \o to_bytes(data_size, 4)
        \o to_bytes(data_version, 1)

\* reflection::serialize(data_size_buf, version, offset, data_version,
\* data_size) (87-92): int8, int64, int8, int32.
serialize(version, offset, data_version, data_size) ==
    to_bytes(version, 1) \o to_bytes(offset, 8) \o to_bytes(data_version, 1)
        \o to_bytes(data_size, 4)

\* persist_snapshot (84-116): the metadata, then snapshot.data as it is.
persist_snapshot(snapshot) ==
    [metadata |-> serialize(snapshot_version, snapshot.offset, snapshot.version,
                            snapshot.snapshot_size),
     data |-> snapshot.data]

\* read_iobuf_exactly(input, n): the first n bytes, fewer when the stream
\* ends before; n is a size_t, so a negative n is beyond every stream.
read_iobuf_exactly(input, n) ==
    IF n < 0 \/ n >= Len(input) THEN input ELSE SubSeq(input, 1, n)

\* load_snapshot (62-73) on a file whose version is snapshot_version.
read_snapshot(file) ==
    LET snapshot_size == from_bytes(SubSeq(file.metadata, 11, 14)) IN
    [offset |-> from_bytes(SubSeq(file.metadata, 2, 9)),
     version |-> from_bytes(SubSeq(file.metadata, 10, 10)),
     snapshot_size |-> snapshot_size,
     data |-> read_iobuf_exactly(file.data, snapshot_size)]

\* persist_snapshot completes: the bytes are the snapshot on disk.
CodecPersist ==
    /\ codec.pc = "persist_snapshot"
    /\ codec' = [codec EXCEPT !.pc = "persisted", !.file = persist_snapshot(codec.snapshot)]
    /\ UNCHANGED <<consensus_vars, next, insync_offset, snapshot_file, sync_vars, snap_vars,
                   start_vars>>

\* A later load_snapshot reads the file: the version (44-60), then the
\* snapshot.
CodecLoad ==
    /\ codec.pc = "persisted"
    /\ from_bytes(SubSeq(codec.file.metadata, 1, 1)) = snapshot_version
    /\ codec' = [codec EXCEPT !.pc = "loaded", !.loaded = read_snapshot(codec.file)]
    /\ UNCHANGED <<consensus_vars, next, insync_offset, snapshot_file, sync_vars, snap_vars,
                   start_vars>>

\* -------------------------------------------------------- specifications
\* A failed vassert ends the process.
Alive == start_pc # "aborted"

Next ==
    /\ Alive
    /\ \/ StartStep
       \/ AppendEntry
       \/ CommitIndexAdvance
       \/ TermChange
       \/ BecomeLeader
       \/ StepDown
       \/ ApplyStep
       \/ HandleEviction
       \/ SyncStep
       \/ SnapStep

Spec == Init /\ [][Next]_vars

\* The sync protocol over an empty log and an empty snapshot directory.
InitSync ==
    /\ InitStm
    /\ codec = CodecOff
    /\ snapshot_file = NoFile
    /\ c_start_offset = 0
    /\ c_dirty_offset = NoOffset
    /\ c_committed_offset = NoOffset

NextSync ==
    /\ Alive
    /\ \/ StartLoadSnapshot
       \/ StartStateMachine
       \/ AppendEntry
       \/ CommitIndexAdvance
       \/ TermChange
       \/ BecomeLeader
       \/ StepDown
       \/ ApplyStep
       \/ SyncStep

SyncSpec == InitSync /\ [][NextSync]_vars

\* The snapshot scheduler and hydration, whatever the log and the snapshot
\* directory hold at construction.
NextSnap ==
    /\ Alive
    /\ \/ StartStep
       \/ AppendEntry
       \/ CommitIndexAdvance
       \/ ApplyStep
       \/ HandleEviction
       \/ SnapStep

SnapSpec == Init /\ [][NextSnap]_vars

\* start() and the apply loop alone, whatever the log and the snapshot
\* directory hold at construction.
NextStart ==
    /\ Alive
    /\ \/ StartStep
       \/ AppendEntry
       \/ CommitIndexAdvance
       \/ ApplyStep
       \/ HandleEviction

StartSpec == Init /\ [][NextStart]_vars

\* persist_snapshot of any stm_snapshot, then load_snapshot.
InitCodec ==
    /\ InitStm
    /\ snapshot_file = NoFile
    /\ c_start_offset = 0
    /\ c_dirty_offset = NoOffset
    /\ c_committed_offset = NoOffset
    /\ codec \in [pc : {"persist_snapshot"}, snapshot : Snapshots, file : {NoBytes},
                  loaded : {NoSnapshot}]

NextCodec ==
    \/ CodecPersist
    \/ CodecLoad

CodecSpec == InitCodec /\ [][NextCodec]_vars

\* A leader whose term lasts, waits that never time out, and a scheduler, a
\* consensus engine and an apply loop that keep running.
SyncStepLive ==
    \E c \in SyncCallers :
        \/ SyncCall(c)
        \/ SyncRefreshDone(c)
        \/ SyncWaitCommittedDone(c)
        \/ SyncWaitDone(c)
        \/ SyncFinish(c)
        \/ SyncReturn(c)

NextLive ==
    /\ Alive
    /\ \/ StartLoadSnapshot
       \/ StartStateMachine
       \/ AppendEntry
       \/ CommitIndexAdvance
       \/ BecomeLeader
       \/ ApplyStep
       \/ SyncStepLive

LiveSpec ==
    /\ InitSync
    /\ [][NextLive]_vars
    /\ WF_vars(StartLoadSnapshot)
    /\ WF_vars(StartStateMachine)
    /\ WF_vars(CommitIndexAdvance)
    /\ WF_vars(ApplyStep)
    /\ \A c \in SyncCallers :
         /\ WF_vars(SyncRefreshDone(c))
         /\ WF_vars(SyncWaitCommittedDone(c))
         /\ WF_vars(SyncWaitDone(c))
         /\ WF_vars(SyncFinish(c))

TypeOK ==
    /\ c_term \in Terms
    /\ c_is_leader \in BOOLEAN
    /\ c_committed_offset \in Offsets
    /\ c_dirty_offset \in Offsets
    /\ c_committed_offset <= c_dirty_offset
    /\ insync_offset \in Offsets
    /\ insync_offset <= c_committed_offset
    /\ insync_term \in {NoTerm} \cup Terms
    /\ last_snapshot_offset \in Offsets
    /\ hydrated \in BOOLEAN
    /\ set_value_calls \in Nat
    /\ apply_snapshot_calls \in Nat
    /\ op_lock \in {0} \cup SnapCallers
    /\ Len(sync_waiters) <= MaxWaiters

\* ------------------------------------------------------------ properties
InFlight == {"refresh_commit_index", "wait_offset_committed", "wait", "do_sync_returned"}
Writing == {"take_snapshot", "persist_snapshot", "persisted"}

\* The target of an attempt: the dirty offset captured at 238 if it exceeded
\* the committed offset read at 179, that committed offset otherwise.
Target(f) == IF f.dirty > f.committed THEN f.dirty ELSE f.committed

\* C1: when the attempt of sync() returns success, the apply cursor is at
\* least the attempt's target.
C1_SuccessMeansTargetApplied ==
    \A c \in SyncCallers :
        (sync_fiber[c].pc = "ret_attempt" /\ sync_fiber[c].is_synced)
            => insync_offset >= Target(sync_fiber[c])

\* An attempt succeeded whose target is the committed offset, above the dirty
\* offset it captured.
C1_Witness ==
    \E c \in SyncCallers :
        /\ sync_fiber[c].pc = "ret_attempt"
        /\ sync_fiber[c].is_synced
        /\ sync_fiber[c].committed > sync_fiber[c].dirty
        /\ sync_fiber[c].dirty >= 0

\* C2: an attempt whose term changed before the apply cursor reached its
\* target returns failure and does not record its term in _insync_term.
C2_TermChangeFailsAttempt ==
    \A c \in SyncCallers :
        (c \in lost_term /\ sync_fiber[c].pc = "ret_attempt")
            => (~sync_fiber[c].is_synced /\ insync_term # sync_fiber[c].term)

C4_AllWaitersGetOutcome ==
    \A a, w \in SyncCallers :
        (/\ sync_fiber[a].pc = "do_sync_returned"
         /\ sync_fiber[w].pc = "ret_waiter"
         /\ sync_fiber[w].term = sync_fiber[a].term
         /\ \E i \in 1..Len(sync_waiters) : sync_waiters[i].caller = w)
        => sync_fiber[w].is_synced = sync_fiber[a].is_synced

\* C4 amended: when the attempt finishes, every waiter whose own deadline has
\* not expired resolves with the outcome of the attempt.
C4_PendingWaitersGetOutcome ==
    [][\A a \in SyncCallers :
          (sync_fiber[a].pc = "do_sync_returned" /\ sync_fiber'[a].pc = "ret_attempt")
          => \A i \in PendingWaiters :
                /\ sync_fiber'[sync_waiters[i].caller].pc = "ret_waiter"
                /\ sync_fiber'[sync_waiters[i].caller].is_synced = sync_fiber'[a].is_synced]_vars

\* The attempt and a waiter of the same term both returned success.
C4_Witness ==
    \E a, w \in SyncCallers :
        /\ sync_fiber[a].pc = "ret_attempt"
        /\ sync_fiber[w].pc = "ret_waiter"
        /\ sync_fiber[a].term = sync_fiber[w].term
        /\ sync_fiber[a].is_synced
        /\ sync_fiber[w].is_synced

\* C5: at most one attempt is in flight, and _is_catching_up is set while it is.
C5_OneAttemptInFlight ==
    /\ Cardinality({c \in SyncCallers : sync_fiber[c].pc \in InFlight}) <= 1
    /\ (\E c \in SyncCallers : sync_fiber[c].pc \in InFlight) => is_catching_up

\* A second caller of the same term is a waiter while the attempt waits.
C5_Witness ==
    \E a, w \in SyncCallers :
        /\ sync_fiber[a].pc \in {"wait_offset_committed", "wait"}
        /\ sync_fiber[w].pc = "sync_waiter"
        /\ sync_fiber[w].term = sync_fiber[a].term

\* C6: while the term lasts, no wait times out and commits and applies keep
\* coming, the attempt in flight returns success with _insync_term its term.
C6_AttemptSucceeds ==
    \A c \in SyncCallers :
        (sync_fiber[c].pc = "refresh_commit_index")
            ~> (/\ sync_fiber[c].pc = "ret_attempt"
                /\ sync_fiber[c].is_synced
                /\ insync_term = sync_fiber[c].term
                /\ insync_term = c_term)

\* An attempt that had to wait for the commit index succeeded.
C6_Witness ==
    \E c \in SyncCallers :
        /\ sync_fiber[c].pc = "ret_attempt"
        /\ sync_fiber[c].is_synced
        /\ sync_fiber[c].dirty > sync_fiber[c].committed
        /\ insync_term = c_term

\* C7: two executions of do_make_snapshot never overlap.
C7_OneSnapshotWrite ==
    Cardinality({s \in SnapCallers : snap_fiber[s].pc \in Writing}) <= 1

\* One call persists while a call of another kind queues on the lock.
C7_Witness ==
    \E s, t \in SnapCallers :
        /\ snap_fiber[s].pc = "persist_snapshot"
        /\ snap_fiber[t].pc = "op_lock"
        /\ snap_fiber[s].op # snap_fiber[t].op

\* C8: once a snapshot covering O has been written by this instance,
\* ensure_snapshot_exists(target) with target <= O returns without taking or
\* persisting a snapshot.
C8_EnsureIsIdempotent ==
    [][\A s \in SnapCallers :
          (/\ snap_fiber[s].pc = "wait_for_snapshot_hydrated"
           /\ snap_fiber'[s].pc # "wait_for_snapshot_hydrated"
           /\ snap_fiber[s].op = "ensure_snapshot_exists"
           /\ \E o \in written : snap_fiber[s].target_offset <= o)
          => (/\ snap_fiber'[s].pc = "ret_covered"
              /\ UNCHANGED <<snapshot_file, written, last_snapshot_offset>>)]_vars

\* Two ensure_snapshot_exists of the same target: one wrote, the other one
\* returned at once.
C8_Witness ==
    \E s, t \in SnapCallers :
        /\ snap_fiber[s].pc = "ret_written"
        /\ snap_fiber[s].op = "ensure_snapshot_exists"
        /\ snap_fiber[t].pc = "ret_covered"
        /\ snap_fiber[t].target_offset = snap_fiber[s].target_offset
        /\ Cardinality(written) = 1

\* C9: _last_snapshot_offset never decreases; it changes only when a
\* do_make_snapshot whose persist_snapshot has completed records its offset,
\* to the larger of the two; a failed take or persist leaves it unchanged.
C9_LastSnapshotOffsetMonotonic ==
    [][/\ last_snapshot_offset' >= last_snapshot_offset
       /\ last_snapshot_offset' # last_snapshot_offset
            => \E s \in SnapCallers :
                  /\ snap_fiber[s].pc = "persisted"
                  /\ snap_fiber'[s].pc = "ret_written"
                  /\ snapshot_file.offset = snap_fiber[s].offset
                  /\ last_snapshot_offset' = Max(last_snapshot_offset, snap_fiber[s].offset)
       /\ \A s \in SnapCallers :
            (snap_fiber[s].pc # "ret_failed" /\ snap_fiber'[s].pc = "ret_failed")
                => last_snapshot_offset' = last_snapshot_offset
       /\ \A s \in SnapCallers :
            (snap_fiber[s].pc = "persisted" /\ snap_fiber'[s].pc = "ret_written")
                => last_snapshot_offset' = Max(last_snapshot_offset, snap_fiber[s].offset)]_vars

\* A second snapshot was recorded after an earlier one, and a write failed.
C9_Witness ==
    \E s, t \in SnapCallers :
        /\ snap_fiber[s].pc = "ret_written"
        /\ snap_fiber[t].pc = "ret_failed"
        /\ last_snapshot_offset = snap_fiber[s].offset
        /\ Cardinality(written) = 2

\* C10: a snapshot is taken or written only after start() has loaded (and
\* where it applies, applied) the snapshot on disk and resolved the
\* readiness promise.
C10_NoSnapshotBeforeHydration ==
    \A s \in SnapCallers :
        snap_fiber[s].pc \in Writing \cup {"wait"}
            => (hydrated /\ start_pc \in {"state_machine_start", "running"})

\* A snapshot is being taken right after start() applied the one on disk,
\* before the apply loop runs.
C10_Witness ==
    \E s \in SnapCallers :
        /\ snap_fiber[s].pc = "take_snapshot"
        /\ start_pc = "state_machine_start"
        /\ apply_snapshot_calls = 1

\* ------------------------------------------------------ start(): hydration
\* The snapshot on disk is in the current format.
Usable == snapshot_file # NoFile /\ snapshot_file.version = snapshot_version

\* The snapshot on disk is missing or in the v0 format.
NoneOrV0 == snapshot_file = NoFile \/ snapshot_file.version = snapshot_version_v0

\* start() goes on after load_snapshot returned without throwing.
Loaded ==
    /\ start_pc = "load_snapshot"
    /\ start_pc' # "load_snapshot"
    /\ ~StartLoadSnapshotFails

\* C11: start() calls set_value on the readiness promise exactly once on every
\* branch that does not abort, never before load_snapshot (and apply_snapshot
\* where it runs) has returned, and before state_machine::start() starts the
\* apply loop.
C11_ReadinessResolvedOnce ==
    /\ set_value_calls <= 1
    /\ hydrated <=> set_value_calls = 1
    /\ start_pc \in {"state_machine_start", "running"} => set_value_calls = 1
    /\ start_pc \in {"load_snapshot", "apply_snapshot", "aborted"} => set_value_calls = 0

\* The apply loop runs after start() skipped a snapshot below the log's start.
C11_Witness ==
    /\ start_pc = "running"
    /\ set_value_calls = 1
    /\ Usable
    /\ snapshot_file.offset + 1 < c_start_offset
    /\ apply_snapshot_calls = 0

\* C12: with a snapshot in the current format, start() calls apply_snapshot if
\* and only if header.offset + 1 >= the log's start offset; the hook runs at
\* most once and then _next is header.offset + 1; otherwise start() goes on to
\* the apply loop with the state not restored.
C12_ApplyIffInRange ==
    [][/\ (Loaded /\ Usable)
            => IF snapshot_file.offset + 1 >= c_start_offset
               THEN start_pc' = "apply_snapshot"
               ELSE /\ start_pc' = "state_machine_start"
                    /\ UNCHANGED <<apply_snapshot_calls, insync_offset>>
       /\ apply_snapshot_calls' # apply_snapshot_calls
            => /\ apply_snapshot_calls = 0
               /\ apply_snapshot_calls' = 1
               /\ Usable
               /\ snapshot_file.offset + 1 >= c_start_offset
               /\ next' = snapshot_file.offset + 1
               /\ insync_offset' = snapshot_file.offset]_vars

\* The snapshot applied ends right below the log's start.
C12_Witness ==
    /\ start_pc = "state_machine_start"
    /\ apply_snapshot_calls = 1
    /\ Usable
    /\ snapshot_file.offset + 1 = c_start_offset
    /\ next = c_start_offset

\* C13 as stated: after start() skipped a snapshot below the log's start, _next
\* is as the constructor left it.
C13_SkippedLeavesCursorUnset ==
    (/\ start_pc = "state_machine_start"
     /\ Usable
     /\ snapshot_file.offset + 1 < c_start_offset)
        => next = 0

\* C13 amended: on the skipped branch start() sets _next to header.offset + 1,
\* below the log's start; only handle_eviction moves it into the log.
C13_SkippedSetsCursorBelowStart ==
    [][/\ (Loaded /\ Usable /\ snapshot_file.offset + 1 < c_start_offset)
            => (next' = snapshot_file.offset + 1 /\ next' < c_start_offset)
       /\ (start_pc \in {"state_machine_start", "running"} /\ next < c_start_offset
              /\ next' # next)
            => (start_pc = "running" /\ next' = c_start_offset)]_vars

\* The apply loop found _next, as start() set it, below the log's start and
\* moved it there.
C13_Witness ==
    /\ start_pc = "running"
    /\ Usable
    /\ snapshot_file.offset + 1 < c_start_offset
    /\ apply_snapshot_calls = 0
    /\ next = c_start_offset

\* C14: with no snapshot on disk, or one in the v0 format, start() does not
\* call apply_snapshot and does not abort; it sets _next to the log's start
\* offset if that is >= 0 and leaves _next alone otherwise.
C14_NoSnapshotStartsAtLogStart ==
    [][/\ (Loaded /\ NoneOrV0)
            => /\ start_pc' = "state_machine_start"
               /\ UNCHANGED <<apply_snapshot_calls, insync_offset>>
               /\ next' = IF c_start_offset >= 0 THEN c_start_offset ELSE next
       /\ NoneOrV0 => apply_snapshot_calls' = 0]_vars

\* A v0 snapshot was passed over and _next is the log's start offset, above 0.
C14_Witness ==
    /\ start_pc = "state_machine_start"
    /\ snapshot_file # NoFile
    /\ snapshot_file.version = snapshot_version_v0
    /\ c_start_offset > 0
    /\ next = c_start_offset
    /\ apply_snapshot_calls = 0

\* ------------------------------------------ ensure_snapshot_exists: the wait
\* C15: a fiber of ensure_snapshot_exists suspended in wait(target_offset) can
\* always resume, whatever the apply cursor does: by the cursor reaching the
\* target or by the deadline of the wait expiring. It never holds _op_lock
\* with no way to go on.
C15_EnsureWaitBounded ==
    \A s \in SnapCallers :
        snap_fiber[s].pc = "wait"
            => ENABLED (NextSnap /\ snap_fiber'[s].pc # "wait")

\* ------------------------------------------------ the snapshot's round trip
\* C16 as stated: load_snapshot returns the stm_snapshot persist_snapshot was
\* given, header and data, whatever the header and the data are.
C16_RoundTripAnyPair ==
    codec.pc = "loaded" => codec.loaded = codec.snapshot

\* C16 amended: load_snapshot returns the stm_snapshot persist_snapshot was
\* given when header.snapshot_size is the length of data.
C16_RoundTripSizedPair ==
    (codec.pc = "loaded" /\ codec.snapshot.snapshot_size = Len(codec.snapshot.data))
        => codec.loaded = codec.snapshot

\* A snapshot with data of the largest length and bytes above 127 has been
\* written and read back.
C16_Witness ==
    /\ codec.pc = "loaded"
    /\ codec.loaded = codec.snapshot
    /\ Len(codec.snapshot.data) = MaxLen
    /\ codec.snapshot.snapshot_size = MaxLen
    /\ codec.snapshot.offset = MaxOffset
    /\ \E i \in 1..MaxLen : codec.snapshot.data[i] = 255

\* ------------------------------------------------- sync(): waiters and term
\* An attempt of sync() finishes: 243-248 run.
Finishing(a) == sync_fiber[a].pc = "do_sync_returned" /\ sync_fiber'[a].pc = "ret_attempt"

\* C17: every promise of _sync_waiters is given a value once: the loop of
\* 244-246 calls set_value on no promise its timeout has already resolved, and
\* a waiter that resumes had a promise not yet resolved and leaves none that
\* can still be.
C17_WaitersResolvedOnce ==
    [][/\ \A a \in SyncCallers :
            Finishing(a) => \A i \in DrainedWaiters : sync_waiters[i].state = "pending"
       /\ \A w \in SyncCallers :
            (sync_fiber[w].pc = "sync_waiter" /\ sync_fiber'[w].pc = "ret_waiter")
                => /\ \E i \in PendingWaiters : sync_waiters[i].caller = w
                   /\ \A i \in 1..Len(sync_waiters') :
                         sync_waiters'[i].caller = w => sync_waiters'[i].state # "pending"]_vars

\* C18: no attempt is in flight only if _is_catching_up is clear and
\* _sync_waiters is empty: however the attempt ended, it cleared the one and
\* resolved and emptied the other.
C18_AttemptEndClearsCatchingUp ==
    (is_catching_up \/ sync_waiters # <<>>)
        => \E c \in SyncCallers : sync_fiber[c].pc \in InFlight

\* C19: _insync_term never decreases, and it changes only in the step in which
\* the wait of an attempt returns and the attempt succeeds, to the term of that
\* attempt.
C19_InsyncTermMonotonic ==
    [][/\ insync_term' >= insync_term
       /\ insync_term' # insync_term
            => \E c \in SyncCallers :
                  /\ sync_fiber[c].pc = "wait"
                  /\ sync_fiber'[c].pc = "do_sync_returned"
                  /\ sync_fiber'[c].is_synced
                  /\ insync_term' = sync_fiber[c].term
       /\ \A c \in SyncCallers :
            (sync_fiber[c].pc # sync_fiber'[c].pc
               /\ sync_fiber'[c].pc \in Returned \cup {"sync_waiter", "refresh_commit_index"})
                => insync_term' = insync_term
       /\ \A c \in SyncCallers :
            (sync_fiber'[c].pc = "do_sync_returned" /\ sync_fiber[c].pc # "do_sync_returned"
               /\ ~sync_fiber'[c].is_synced)
                => insync_term' = insync_term]_vars

\* _insync_term has been set in one term and again in a later one, and an
\* attempt has failed since.
C19_Witness ==
    /\ insync_term = MaxTerm
    /\ Cardinality(synced_terms) >= 2
    /\ \E c \in SyncCallers :
          sync_fiber[c].pc = "ret_attempt" /\ ~sync_fiber[c].is_synced

\* C20: when sync() returns true to a caller (from the memo, as the attempt or
\* as a waiter), _insync_term is the term that caller read at 222.
C20_SuccessInCallersTerm ==
    [][\A c \in SyncCallers :
          (/\ sync_fiber[c].pc \notin Returned
           /\ sync_fiber'[c].pc \in Returned
           /\ sync_fiber'[c].is_synced)
          => insync_term' = sync_fiber'[c].term]_vars

====
